---------------------------- MODULE Spec2Model ----------------------------
(***************************************************************************)
(* Compensation projection engine of CompensationCalculator:              *)
(*   utils/math_helpers.py, services/equity_projection_service.py,        *)
(*   services/compensation_service.py, services/scenario_service.py,      *)
(*   models/compensation.py.                                              *)
(*                                                                         *)
(* Money and rates are Python floats in the source.  Here they are exact  *)
(* rationals [n |-> numerator, d |-> denominator > 0] in lowest terms.    *)
(* The two places where a float is truncated to an integer (int(...) in   *)
(* calculate_vested_amount) are discontinuous, so there the IEEE-754      *)
(* double result is kept: FloatShortQuarterly / FloatShortAnnually list   *)
(* the arguments for which the double product falls just below the whole  *)
(* number and int() yields one less.                                      *)
(***************************************************************************)
EXTENDS Integers, Sequences, FiniteSets, TLC

VARIABLES
    offer,        \* the caller's CompensationOffer
    op,           \* the service operation called last
    args,         \* the arguments of that call
    result,       \* what the call returned (or the exception it raised)
    vest,         \* arguments of a direct calculate_vested_amount call
    current_date, \* its current_date argument
    vested        \* its return value

vars == <<offer, op, args, result, vest, current_date, vested>>

\* Python's None, and "no call made yet", as records (every variable holds a
\* record or a string throughout)
None == [kind |-> "none"]

-----------------------------------------------------------------------------
(* Exact rational arithmetic standing for float arithmetic.               *)

Abs(x) == IF x < 0 THEN -x ELSE x

RECURSIVE GCD(_, _)
GCD(a, b) == IF b = 0 THEN a ELSE GCD(b, a % b)

Rat(n, d) ==
    LET g == GCD(Abs(n), Abs(d))
        s == IF d < 0 THEN -1 ELSE 1
    IN  [n |-> s * (n \div g), d |-> s * (d \div g)]

R(i) == [n |-> i, d |-> 1]
Zero == R(0)
One == R(1)

RAdd(a, b) ==
    LET g == GCD(a.d, b.d)
    IN  Rat(a.n * (b.d \div g) + b.n * (a.d \div g), (a.d \div g) * b.d)

RMul(a, b) ==
    LET g1 == GCD(Abs(a.n), b.d)
        g2 == GCD(Abs(b.n), a.d)
    IN  IF a.n = 0 \/ b.n = 0 THEN Zero
        ELSE Rat((a.n \div g1) * (b.n \div g2), (a.d \div g2) * (b.d \div g1))

RInv(a) == Rat(a.d, a.n)
RDiv(a, b) == RMul(a, RInv(b))
RNeg(a) == [n |-> -a.n, d |-> a.d]
RSub(a, b) == RAdd(a, RNeg(b))
RLt(a, b) == RSub(a, b).n < 0
RLe(a, b) == RSub(a, b).n <= 0
RMax(a, b) == IF RLt(a, b) THEN b ELSE a

\* int(x): truncation toward zero
RTrunc(a) == IF a.n >= 0 THEN a.n \div a.d ELSE -((-a.n) \div a.d)

RECURSIVE RPowInt(_, _)
RPowInt(b, k) ==
    IF k = 0 THEN One
    ELSE IF k < 0 THEN RInv(RPowInt(b, -k))
    ELSE RMul(b, RPowInt(b, k - 1))

IsSquare(k) == \E r \in 0..k : r * r = k
ISqrt(k) == CHOOSE r \in 0..k : r * r = k

\* b ** e for a rational exponent e is rational only for a whole exponent,
\* for b = 1, or for a half-whole exponent of a perfect square; the model's
\* inputs stay there.
PowDefined(b, e) ==
    IF e.d = 1 THEN (b.n # 0 \/ e.n >= 0)
    ELSE IF b = One THEN TRUE
    ELSE IF e.d = 2 THEN (b.n > 0 /\ IsSquare(b.n) /\ IsSquare(b.d))
    ELSE FALSE

RPow(b, e) ==
    IF e.d = 1 THEN RPowInt(b, e.n)
    ELSE IF b = One THEN One
    ELSE RPowInt([n |-> ISqrt(b.n), d |-> ISqrt(b.d)], e.n)

-----------------------------------------------------------------------------
(* Exceptions: a call that raises returns Error(exception class).          *)

Error(exc) == [kind |-> "error", exc |-> exc]

IsError(x) == "kind" \in DOMAIN x /\ x.kind = "error"

-----------------------------------------------------------------------------
(* datetime.date                                                           *)

Date(y, m, d) == [y |-> y, m |-> m, d |-> d]

IsLeap(y) == (y % 4 = 0) /\ ((y % 100 # 0) \/ (y % 400 = 0))

DaysInMonth(y, m) ==
    IF m = 2 THEN (IF IsLeap(y) THEN 29 ELSE 28)
    ELSE IF m \in {4, 6, 9, 11} THEN 30 ELSE 31

ValidDate(dt) == dt.m \in 1..12 /\ dt.d >= 1 /\ dt.d <= DaysInMonth(dt.y, dt.m)


ReplaceYear_or_last_of_february(dt, y) ==
    LET r == Date(y, dt.m, dt.d)
    IN  IF ValidDate(r) THEN r ELSE Date(y, 2, 28)

\* date.replace(year = y): ValueError when the day does not exist in year y
ReplaceYear(dt, y) ==
    LET r == Date(y, dt.m, dt.d)
    IN  IF ValidDate(r) THEN r ELSE Error("ValueError")

\* date.toordinal(): days since 0001-01-01, that day being 1
DaysBeforeYear(y) ==
    (y - 1) * 365 + ((y - 1) \div 4) - ((y - 1) \div 100) + ((y - 1) \div 400)

RECURSIVE DaysBeforeMonth(_, _)
DaysBeforeMonth(y, m) ==
    IF m = 1 THEN 0 ELSE DaysBeforeMonth(y, m - 1) + DaysInMonth(y, m - 1)

ToOrdinal(dt) == DaysBeforeYear(dt.y) + DaysBeforeMonth(dt.y, dt.m) + dt.d

\* date.fromordinal(n)
FromOrdinal(n) ==
    LET y == CHOOSE yy \in (n \div 366)..((n \div 365) + 1) :
                 DaysBeforeYear(yy) < n /\ n <= DaysBeforeYear(yy + 1)
        r == n - DaysBeforeYear(y)
        m == CHOOSE mm \in 1..12 :
                 DaysBeforeMonth(y, mm) < r
                 /\ r <= DaysBeforeMonth(y, mm) + DaysInMonth(y, mm)
    IN  Date(y, m, r - DaysBeforeMonth(y, m))

\* (a - b).days
DaysBetween(a, b) == ToOrdinal(a) - ToOrdinal(b)

\* dt + timedelta(days = k)
AddDays(dt, k) == FromOrdinal(ToOrdinal(dt) + k)

-----------------------------------------------------------------------------
(* utils/math_helpers.py                                                   *)

calculate_future_value(initial_value, growth_rate, years) ==
    RMul(initial_value, RPow(RAdd(One, growth_rate), years))

months_between_dates(start_date, end_date) ==
    (end_date.y - start_date.y) * 12 + (end_date.m - start_date.m)

\* <<months_since_vesting, duration_months>> for which the double
\* (m / dur) * (dur / 3) is just below the whole number m / 3, so that int()
\* returns m / 3 - 1 (IEEE-754 binary64, all 0 <= m < dur <= 50).
FloatShortQuarterly ==
    { <<3,11>>, <<6,11>>, <<9,13>>, <<3,19>>, <<6,19>>, <<9,19>>, <<12,19>>,
      <<18,19>>, <<3,22>>, <<6,22>>, <<12,22>>, <<15,22>>, <<9,26>>, <<15,26>>,
      <<18,26>>, <<3,29>>, <<6,29>>, <<12,29>>, <<24,29>>, <<9,35>>, <<15,35>>,
      <<18,35>>, <<21,35>>, <<30,35>>, <<3,38>>, <<6,38>>, <<9,38>>, <<12,38>>,
      <<18,38>>, <<24,38>>, <<36,38>>, <<3,41>>, <<6,41>>, <<12,41>>, <<24,41>>,
      <<39,41>>, <<3,44>>, <<6,44>>, <<12,44>>, <<15,44>>, <<24,44>>, <<30,44>>,
      <<3,47>>, <<6,47>>, <<12,47>>, <<21,47>>, <<24,47>>, <<42,47>>, <<3,49>>,
      <<6,49>>, <<12,49>>, <<21,49>>, <<24,49>>, <<27,49>>, <<33,49>>, <<39,49>>,
      <<42,49>>, <<48,49>> }

\* the same for (m / dur) * (dur / 12)
FloatShortAnnually ==
    { <<12,19>>, <<12,22>>, <<12,29>>, <<24,29>>, <<12,38>>, <<24,38>>,
      <<36,38>>, <<12,41>>, <<24,41>>, <<12,44>>, <<24,44>>, <<12,47>>,
      <<24,47>>, <<12,49>>, <<24,49>>, <<48,49>> }

\* int(vesting_percentage * (duration_months / unit)), unit 3 or 12, where
\* vesting_percentage is 1.0 (m >= dur) or m / dur
periods_vested(m, dur, unit) ==
    LET pct == IF m >= dur THEN One ELSE Rat(m, dur)
        exact == RTrunc(RMul(pct, Rat(dur, unit)))
        short == IF unit = 3 THEN FloatShortQuarterly ELSE FloatShortAnnually
    IN  IF m < dur /\ <<m, dur>> \in short THEN exact - 1 ELSE exact

\* the growth exponent of a call is one the rationals can hold
vest_representable(grant_start_date, vesting_start_date, cliff_months, cur, growth_rate) ==
    IF growth_rate.n <= 0 THEN TRUE
    ELSE IF months_between_dates(vesting_start_date, cur) < cliff_months THEN TRUE
    ELSE PowDefined(RAdd(One, growth_rate),
                    Rat(months_between_dates(grant_start_date, cur), 12))

before_cliff_ignoring_cliff(months_since_vesting, cliff_months) ==
    months_since_vesting < 0

before_cliff_inverted(months_since_vesting, cliff_months) ==
    months_since_vesting > cliff_months

\* if months_since_vesting < cliff_months: return 0.0
before_cliff(months_since_vesting, cliff_months) ==
    months_since_vesting < cliff_months

\* vesting_percentage after the frequency adjustment
quantized_percentage(months_since_vesting, duration_months, frequency) ==
    IF frequency = "quarterly"
    THEN RDiv(R(periods_vested(months_since_vesting, duration_months, 3)),
              Rat(duration_months, 3))
    ELSE IF frequency = "annually"
    THEN RDiv(R(periods_vested(months_since_vesting, duration_months, 12)),
              Rat(duration_months, 12))
    ELSE IF months_since_vesting >= duration_months THEN One
    ELSE Rat(months_since_vesting, duration_months)

with_growth_any_rate(value, growth_rate, months_since_grant) ==
    IF growth_rate.n # 0
    THEN calculate_future_value(value, growth_rate, Rat(months_since_grant, 12))
    ELSE value

\* if growth_rate > 0: value = calculate_future_value(value, growth_rate, months / 12)
with_growth(value, growth_rate, months_since_grant) ==
    IF growth_rate.n > 0
    THEN calculate_future_value(value, growth_rate, Rat(months_since_grant, 12))
    ELSE value

vested_after_cliff_or_duration(total_grant_value, months_since_vesting, months_since_grant, cliff_months, duration_months, frequency, growth_rate) ==
    IF before_cliff(months_since_vesting, cliff_months)
          /\ months_since_vesting < duration_months THEN Zero
    ELSE RMax(Zero,
              with_growth(RMul(total_grant_value,
                               quantized_percentage(months_since_vesting,
                                                    duration_months, frequency)),
                          growth_rate, months_since_grant))

vested_after_cliff(total_grant_value, months_since_vesting, months_since_grant, cliff_months, duration_months, frequency, growth_rate) ==
    IF before_cliff(months_since_vesting, cliff_months) THEN Zero
    ELSE RMax(Zero,
              with_growth(RMul(total_grant_value,
                               quantized_percentage(months_since_vesting,
                                                    duration_months, frequency)),
                          growth_rate, months_since_grant))

calculate_vested_amount(total_grant_value, grant_start_date, vesting_start_date, cliff_months, duration_months, frequency, cur, growth_rate) ==
    vested_after_cliff(total_grant_value,
                       months_between_dates(vesting_start_date, cur),
                       months_between_dates(grant_start_date, cur),
                       cliff_months, duration_months, frequency, growth_rate)

calculate_refresh_grant_accumulating(original_grant_value, refresh_rate, years_since_original) ==
    IF refresh_rate.n <= 0 THEN Zero
    ELSE RMul(RMul(original_grant_value, RDiv(refresh_rate, R(100))),
              years_since_original)

calculate_refresh_grant(original_grant_value, refresh_rate, years_since_original) ==
    IF refresh_rate.n <= 0 THEN Zero
    ELSE RMul(original_grant_value, RDiv(refresh_rate, R(100)))


-----------------------------------------------------------------------------
(* models/compensation.py                                                  *)

not_negative(x) == x.n >= 0

\* YearlyProjection(...): pydantic validates year >= 1 and every amount >= 0
YearlyProjection(year, base_salary, bonus, equity_value, total) ==
    IF year >= 1 /\ not_negative(base_salary) /\ not_negative(bonus)
          /\ not_negative(equity_value) /\ not_negative(total)
    THEN [year |-> year, base_salary |-> base_salary, bonus |-> bonus,
          equity_value |-> equity_value, total |-> total]
    ELSE Error("ValidationError")

OfferProjection(offer_name, years) ==
    [kind |-> "projection", offer_name |-> offer_name, years |-> years]

-----------------------------------------------------------------------------
(* services/equity_projection_service.py                                   *)

get_year_date_next_year(start_date, year) ==
    ReplaceYear(start_date, start_date.y + year)

\* start_date.replace(year=start_date.year + year - 1)
get_year_date(start_date, year) == ReplaceYear(start_date, start_date.y + year - 1)

refresh_from_first_year(year) == year <= 0

\* if year <= 1: return 0.0
refresh_not_started(year) == year <= 1

calculate_refresh_grants(grant, year_date, year) ==
    IF grant.refresh_rate = None THEN Zero
    ELSE IF grant.refresh_rate.n <= 0 THEN Zero
    ELSE IF refresh_not_started(year) THEN Zero
    ELSE with_growth(
             calculate_refresh_grant(grant.value, grant.refresh_rate,
                 Rat(months_between_dates(grant.start_date, year_date), 12)),
             grant.growth_rate,
             months_between_dates(grant.start_date, year_date))

grant_vested_value(grant, year_date) ==
    calculate_vested_amount(grant.value, grant.start_date, grant.start_date,
        grant.vesting_schedule.cliff_months, grant.vesting_schedule.duration_months,
        grant.vesting_schedule.frequency, year_date, grant.growth_rate)

calculate_grant_value_for_year(grant, year_date, year) ==
    RAdd(grant_vested_value(grant, year_date),
         calculate_refresh_grants(grant, year_date, year))

RECURSIVE RSum(_)
RSum(amounts) ==
    IF amounts = <<>> THEN Zero
    ELSE RAdd(RSum(SubSeq(amounts, 1, Len(amounts) - 1)), amounts[Len(amounts)])

\* the sum over the grants at year_date, or the exception year_date is
equity_at(o, year_date, year) ==
    IF IsError(year_date) THEN year_date
    ELSE RSum([i \in 1..Len(o.equity_grants) |->
             calculate_grant_value_for_year(o.equity_grants[i], year_date, year)])

calculate_year_equity_value(o, year) ==
    equity_at(o, get_year_date(o.start_date, year), year)

exit_applies_after(year, exit_year) == year > exit_year

\* if year >= exit_year
exit_applies(year, exit_year) == year >= exit_year

exit_equity_at(o, exit_multiplier, exit_year, year_date, year) ==
    IF IsError(year_date) THEN year_date
    ELSE RSum([i \in 1..Len(o.equity_grants) |->
             IF exit_applies(year, exit_year)
             THEN RMul(grant_vested_value(o.equity_grants[i], year_date),
                       exit_multiplier)
             ELSE grant_vested_value(o.equity_grants[i], year_date)])

exit_year_equity(o, exit_valuation, exit_year, year) ==
    exit_equity_at(o, RDiv(exit_valuation, R(1000000000)), exit_year,
                   get_year_date(o.start_date, year), year)

\* the first exception among the items of a list built by a loop, or None
FirstError(items) ==
    IF \A i \in 1..Len(items) : ~IsError(items[i]) THEN None
    ELSE items[CHOOSE i \in 1..Len(items) :
                   IsError(items[i]) /\ \A j \in 1..(i - 1) : ~IsError(items[j])]

\* what a loop that appends the items returns: `value`, or the first exception
ListOrError(items, value) ==
    IF FirstError(items) = None THEN value ELSE FirstError(items)

EquityValues(yearly_equity) ==
    ListOrError(yearly_equity, [kind |-> "values", list |-> yearly_equity])

simulate_exit_scenario(o, exit_valuation, exit_year, years) ==
    EquityValues([year \in 1..years |->
                     exit_year_equity(o, exit_valuation, exit_year, year)])

-----------------------------------------------------------------------------
(* services/compensation_service.py                                        *)

calculate_bonus_signing_every_year(o, year) ==
    RAdd(o.signing_bonus,
         RAdd(o.bonus_fixed, RDiv(RMul(o.base_salary, o.bonus_percentage), R(100))))

calculate_bonus(o, year) ==
    IF year = 1
    THEN RAdd(RAdd(o.signing_bonus, o.bonus_fixed),
              RDiv(RMul(o.base_salary, o.bonus_percentage), R(100)))
    ELSE RAdd(o.bonus_fixed, RDiv(RMul(o.base_salary, o.bonus_percentage), R(100)))

\* total = base_salary + bonus + equity_value
year_total(base_salary, bonus, equity_value) ==
    RAdd(RAdd(base_salary, bonus), equity_value)

year_projection(year, base_salary, bonus, equity_value) ==
    IF IsError(equity_value) THEN equity_value
    ELSE YearlyProjection(year, base_salary, bonus, equity_value,
                          year_total(base_salary, bonus, equity_value))

calculate_year_projection(o, year) ==
    year_projection(year, o.base_salary, calculate_bonus(o, year),
                    calculate_year_equity_value(o, year))

projection_range_from_zero(years) == [i \in 1..years |-> i - 1]

\* range(1, years + 1)
projection_range(years) == [i \in 1..years |-> i]

projection_of(offer_name, yearly_projections) ==
    ListOrError(yearly_projections, OfferProjection(offer_name, yearly_projections))

compute_total_comp(o, years) ==
    projection_of(o.offer_name,
                  [i \in 1..Len(projection_range(years)) |->
                      calculate_year_projection(o, projection_range(years)[i])])

\* a float (or int) returned by a call
Number(x) == [kind |-> "number", value |-> x]

\* the float a call returns, or the exception it raises
NumberOrError(x) == IF IsError(x) THEN x ELSE Number(x)

cagr_value_without_minus_one(initial_value, final_value, years) ==
    RPow(RDiv(final_value, initial_value), Rat(1, years - 1))

\* (final_value / initial_value) ** (1 / (years - 1)) - 1
cagr_value(initial_value, final_value, years) ==
    RSub(RPow(RDiv(final_value, initial_value), Rat(1, years - 1)), One)

cagr_of(projection, years) ==
    IF IsError(projection) THEN projection
    ELSE IF years < 2 THEN Number(Zero)
    ELSE IF RLe(projection.years[1].total, Zero) THEN Number(Zero)
    ELSE Number(cagr_value(projection.years[1].total,
                           projection.years[Len(projection.years)].total, years))

calculate_cagr(o, years) == cagr_of(compute_total_comp(o, years), years)

\* the root calculate_cagr takes is one the rationals can hold
cagr_root_representable(projection, years) ==
    IF IsError(projection) THEN TRUE
    ELSE IF years < 2 THEN TRUE
    ELSE IF RLe(projection.years[1].total, Zero) THEN TRUE
    ELSE PowDefined(RDiv(projection.years[Len(projection.years)].total,
                         projection.years[1].total),
                    Rat(1, years - 1))

breakdown_share_as_fraction(part, total_comp) == RDiv(part, total_comp)

\* (part / total_comp) * 100
breakdown_share(part, total_comp) == RMul(RDiv(part, total_comp), R(100))

breakdown_of(total_base, total_bonus, total_equity, total_comp) ==
    IF total_comp = Zero
    THEN [kind |-> "breakdown", base |-> Zero, bonus |-> Zero, equity |-> Zero]
    ELSE [kind |-> "breakdown",
          base |-> breakdown_share(total_base, total_comp),
          bonus |-> breakdown_share(total_bonus, total_comp),
          equity |-> breakdown_share(total_equity, total_comp)]

breakdown_of_totals(total_base, total_bonus, total_equity) ==
    breakdown_of(total_base, total_bonus, total_equity,
                 RAdd(RAdd(total_base, total_bonus), total_equity))

breakdown_of_projection(projection) ==
    IF IsError(projection) THEN projection
    ELSE breakdown_of_totals(
             RSum([i \in 1..Len(projection.years) |-> projection.years[i].base_salary]),
             RSum([i \in 1..Len(projection.years) |-> projection.years[i].bonus]),
             RSum([i \in 1..Len(projection.years) |-> projection.years[i].equity_value]))

calculate_breakdown_percentages(o, years) ==
    breakdown_of_projection(compute_total_comp(o, years))

-----------------------------------------------------------------------------
(* services/scenario_service.py                                            *)

\* round(x) to a whole number, ties to even, as the ".0f" / ".1f" formats do
RoundHalfEven(x) ==
    LET fl == IF x.n >= 0 THEN x.n \div x.d ELSE -(((-x.n) + x.d - 1) \div x.d)
        twice == RSub(RMul(x, R(2)), R(2 * fl))
    IN  IF RLt(twice, One) THEN fl
        ELSE IF RLt(One, twice) THEN fl + 1
        ELSE IF fl % 2 = 0 THEN fl ELSE fl + 1

\* f"{x:.0f}"
Format0(x) == <<ToString(RoundHalfEven(x))>>

\* f"{x:.1f}"
Format1(x) ==
    LET t == RoundHalfEven(RMul(x, R(10)))
    IN  <<(IF t < 0 THEN "-" ELSE ""), ToString(Abs(t) \div 10), ".",
          ToString(Abs(t) % 10)>>

\* str(float)
FormatFloat(x) ==
    IF x.d = 1 THEN <<ToString(x.n), ".0">>
    ELSE <<ToString(x.n), "/", ToString(x.d)>>

with_offer_name_kept(projection, offer_name) == projection

\* projection.offer_name = f"Scenario {i+1}: ..."
with_offer_name(projection, offer_name) ==
    IF IsError(projection) THEN projection
    ELSE [projection EXCEPT !.offer_name = offer_name]

shifted_offer_start_only(o, new_start_date) ==
    [o EXCEPT !.start_date = new_start_date]

\* offer.model_copy(deep=True), start_date replaced, every grant's start_date
\* moved by the same number of days
shifted_offer(o, new_start_date) ==
    LET date_offset == DaysBetween(new_start_date, o.start_date)
    IN  [o EXCEPT !.start_date = new_start_date,
                  !.equity_grants = [i \in 1..Len(o.equity_grants) |->
                      [o.equity_grants[i] EXCEPT
                          !.start_date = AddDays(o.equity_grants[i].start_date,
                                                 date_offset)]]]

\* a str value of a descriptor field
Str(s) == [kind |-> "str", s |-> s]

IsDate(x) == DOMAIN x = {"y", "m", "d"}

\* new_start_date - offer.start_date raises TypeError unless new_start_date
\* is a date
simulate_start_date_offset(o, new_start_date, years) ==
    IF IsDate(new_start_date)
    THEN compute_total_comp(shifted_offer(o, new_start_date), years)
    ELSE Error("TypeError")

exit_total_keeps_base_equity(base_year, exit_equity) == base_year.total

\* total = base_salary + bonus + exit_equity_values[i]
exit_total(base_year, exit_equity) ==
    RAdd(RAdd(base_year.base_salary, base_year.bonus), exit_equity)

adjusted_projection(offer_name, base_projection, exit_equity_values) ==
    IF IsError(base_projection) THEN base_projection
    ELSE IF IsError(exit_equity_values) THEN exit_equity_values
    ELSE projection_of(offer_name,
             [i \in 1..Len(base_projection.years) |->
                 YearlyProjection(base_projection.years[i].year,
                                  base_projection.years[i].base_salary,
                                  base_projection.years[i].bonus,
                                  exit_equity_values.list[i],
                                  exit_total(base_projection.years[i],
                                             exit_equity_values.list[i]))])

simulate_exit(o, exit_valuation, exit_year, years) ==
    adjusted_projection(o.offer_name \o <<" (Exit Scenario)">>,
                        compute_total_comp(o, years),
                        simulate_exit_scenario(o, exit_valuation, exit_year, years))

with_growth_rate(o, new_growth_rate) ==
    [o EXCEPT !.equity_grants = [i \in 1..Len(o.equity_grants) |->
        [o.equity_grants[i] EXCEPT !.growth_rate = new_growth_rate]]]

simulate_growth_rate_change(o, new_growth_rate, years) ==
    compute_total_comp(with_growth_rate(o, new_growth_rate), years)

with_refresh_rate(o, new_refresh_rate) ==
    [o EXCEPT !.equity_grants = [i \in 1..Len(o.equity_grants) |->
        [o.equity_grants[i] EXCEPT !.refresh_rate = new_refresh_rate]]]

simulate_refresh_rate_change(o, new_refresh_rate, years) ==
    compute_total_comp(with_refresh_rate(o, new_refresh_rate), years)

\* Python truthiness of scenario.get(key); a descriptor here carries every
\* key, None standing for a key the dict lacks
Truthy(x) ==
    IF x = None THEN FALSE
    ELSE IF DOMAIN x = {"n", "d"} THEN x.n # 0
    ELSE TRUE

\* if exit_valuation:
exit_valuation_given(exit_valuation) == Truthy(exit_valuation)

\* the projections one scenario contributes: none, one, or the exception
scenario_projections(base_offer, scenario, i, years) ==
    IF scenario.type = "start_date"
    THEN IF Truthy(scenario.new_start_date)
         THEN <<with_offer_name(
                  simulate_start_date_offset(base_offer, scenario.new_start_date, years),
                  <<"Scenario ", ToString(i + 1), ": Start Date Change">>)>>
         ELSE <<>>
    ELSE IF scenario.type = "exit"
    THEN IF exit_valuation_given(scenario.exit_valuation)
         THEN <<with_offer_name(
                  simulate_exit(base_offer, scenario.exit_valuation,
                      (IF scenario.exit_year = None THEN 4 ELSE scenario.exit_year.v),
                      years),
                  <<"Scenario ", ToString(i + 1), ": Exit at $">>
                      \o Format1(RDiv(scenario.exit_valuation, R(1000000000)))
                      \o <<"B">>)>>
         ELSE <<>>
    ELSE IF scenario.type = "growth_rate"
    THEN IF scenario.growth_rate # None
         THEN <<with_offer_name(
                  simulate_growth_rate_change(base_offer, scenario.growth_rate, years),
                  <<"Scenario ", ToString(i + 1), ": ">>
                      \o Format0(RMul(scenario.growth_rate, R(100)))
                      \o <<"% Growth">>)>>
         ELSE <<>>
    ELSE IF scenario.type = "refresh_rate"
    THEN IF scenario.refresh_rate # None
         THEN <<with_offer_name(
                  simulate_refresh_rate_change(base_offer, scenario.refresh_rate, years),
                  <<"Scenario ", ToString(i + 1), ": ">>
                      \o FormatFloat(scenario.refresh_rate) \o <<"% Refresh">>)>>
         ELSE <<>>
    ELSE <<>>

\* the offer a scenario's transform builds and assigns to (adjusted_offer);
\* the exit scenario and a skipped descriptor build none
adjusted_offer(o, scenario) ==
    IF scenario.type = "start_date" /\ Truthy(scenario.new_start_date)
    THEN (IF IsDate(scenario.new_start_date)
          THEN shifted_offer(o, scenario.new_start_date)
          ELSE [o EXCEPT !.start_date = scenario.new_start_date])
    ELSE IF scenario.type = "growth_rate" /\ scenario.growth_rate # None
    THEN with_growth_rate(o, scenario.growth_rate)
    ELSE IF scenario.type = "refresh_rate" /\ scenario.refresh_rate # None
    THEN with_refresh_rate(o, scenario.refresh_rate)
    ELSE o

\* a shallow copy: the copy has its own start_date, the grants are shared
caller_offer_after_shallow_copy(o, adjusted) ==
    [o EXCEPT !.equity_grants = adjusted.equity_grants]

\* adjusted_offer = offer.model_copy(deep=True): the assignments land on the
\* copy, the caller's instance is as it was
caller_offer_after(o, adjusted) == o

\* the caller's offer after the loop of compare_scenarios has run over
\* `scenarios`
RECURSIVE offer_after_scenarios(_, _)
offer_after_scenarios(o, scenarios) ==
    IF scenarios = <<>> THEN o
    ELSE caller_offer_after(
             offer_after_scenarios(o, SubSeq(scenarios, 1, Len(scenarios) - 1)),
             adjusted_offer(
                 offer_after_scenarios(o, SubSeq(scenarios, 1, Len(scenarios) - 1)),
                 scenarios[Len(scenarios)]))

RECURSIVE Flatten(_)
Flatten(lists) ==
    IF lists = <<>> THEN <<>>
    ELSE Flatten(SubSeq(lists, 1, Len(lists) - 1)) \o lists[Len(lists)]

Projections(projections) ==
    ListOrError(projections, [kind |-> "projections", list |-> projections])

\* the list of projections, or the first exception raised on the way
compare_scenarios(base_offer, scenarios, years) ==
    Projections(<<compute_total_comp(base_offer, years)>> \o
                Flatten([i \in 1..Len(scenarios) |->
                    scenario_projections(
                        offer_after_scenarios(base_offer, SubSeq(scenarios, 1, i - 1)),
                        scenarios[i], i - 1, years)]))

\* sum(year.total for year in projection.years)
projection_total(projection) ==
    RSum([i \in 1..Len(projection.years) |-> projection.years[i].total])

percentage_change_unguarded(difference, base_total) ==
    IF base_total.n = 0 THEN Error("ZeroDivisionError")
    ELSE RMul(RDiv(difference, base_total), R(100))

\* (difference / base_total * 100) if base_total > 0 else 0
percentage_change_of(difference, base_total) ==
    IF RLt(Zero, base_total) THEN RMul(RDiv(difference, base_total), R(100))
    ELSE Zero

yearly_difference(base_year, scenario_year) ==
    [year |-> base_year.year,
     difference |-> RSub(scenario_year.total, base_year.total),
     percentage_change |->
         percentage_change_of(RSub(scenario_year.total, base_year.total),
                              base_year.total)]

\* zip(a, b) stops at the shorter of the two
ZipLen(a, b) == IF Len(a) <= Len(b) THEN Len(a) ELSE Len(b)

calculate_scenario_impact(base_projection, scenario_projection) ==
    [kind |-> "impact",
     total_difference |->
         RSub(projection_total(scenario_projection), projection_total(base_projection)),
     percentage_change |->
         percentage_change_of(
             RSub(projection_total(scenario_projection),
                  projection_total(base_projection)),
             projection_total(base_projection)),
     yearly_differences |->
         [i \in 1..ZipLen(base_projection.years, scenario_projection.years) |->
             yearly_difference(base_projection.years[i], scenario_projection.years[i])],
     scenario_name |-> scenario_projection.offer_name]

-----------------------------------------------------------------------------
(* Direct calls of calculate_vested_amount.                                *)

MaxDur == 13
MaxCliff == 6

Frequencies == {"monthly", "quarterly", "annually"}

\* growth rates: a decline of 75 % a year, none, and 300 % a year (1 + g is
\* 1/4 or 4, so that half-year exponents stay rational)
GrowthRates == {Rat(-3, 4), Zero, R(3)}

VestingStart == Date(2024, 1, 15)

\* dt moved by k whole months, same day of month (days <= 28 only)
AddMonths(dt, k) ==
    LET i == dt.y * 12 + (dt.m - 1) + k
    IN  Date(i \div 12, (i % 12) + 1, dt.d)

VestInputs ==
    [ value : {Zero, R(120000)},
      grant_start_date : {VestingStart, AddMonths(VestingStart, -6)},
      vesting_start_date : {VestingStart},
      cliff_months : 0..MaxCliff,
      duration_months : 1..MaxDur,
      frequency : Frequencies,
      growth_rate : GrowthRates ]

VestDates == { AddMonths(VestingStart, k) : k \in (-2)..(MaxDur + 2) }


InitVest ==
    /\ vest \in VestInputs
    /\ current_date = None
    /\ vested = None
    /\ offer = None
    /\ op = "none"
    /\ args = None
    /\ result = None

CalculateVestedAmount(cur) ==
    /\ vest # None
    /\ vest_representable(vest.grant_start_date, vest.vesting_start_date,
                          vest.cliff_months, cur, vest.growth_rate) = TRUE
    /\ current_date' = cur
    /\ vested' = calculate_vested_amount(vest.value, vest.grant_start_date,
                    vest.vesting_start_date, vest.cliff_months,
                    vest.duration_months, vest.frequency, cur, vest.growth_rate)
    /\ op' = "calculate_vested_amount"
    /\ UNCHANGED <<vest, offer, args, result>>

NextVest == \E cur \in VestDates : CalculateVestedAmount(cur)

SpecVest == InitVest /\ [][NextVest]_vars

Elapsed == months_between_dates(vest.vesting_start_date, current_date)

\* C3: calculate_vested_amount returns exactly 0 whenever the whole-month
\* count from vesting_start_date to current_date is below cliff_months, for
\* every frequency, grant value and growth rate, also for a negative count
\* with cliff_months 0.
C3_ZeroBeforeCliff ==
    (vested # None /\ Elapsed < vest.cliff_months) => vested = Zero

C3_Witness ==
    /\ vested = Zero
    /\ vest.value.n > 0
    /\ vest.growth_rate.n > 0
    /\ Elapsed > 0
    /\ Elapsed < vest.cliff_months

\* C4: with growth_rate 0 and cliff_months <= duration_months, the returned
\* value equals total_grant_value exactly once the elapsed months reach
\* duration_months, for every frequency and every duration_months >= 1.
C4_FullyVestedEqualsGrant ==
    ( /\ vested # None
      /\ vest.growth_rate = Zero
      /\ vest.cliff_months <= vest.duration_months
      /\ Elapsed >= vest.duration_months ) => vested = vest.value

\* C5: for a fixed grant with growth_rate 0 the vested value is
\* non-decreasing in the elapsed month count, for every frequency.
C5_VestedMonotone ==
    [][ ( /\ vested # None
          /\ vest.growth_rate = Zero
          /\ Elapsed <= Elapsed' ) => RLe(vested, vested') ]_vars

C5_Witness ==
    /\ vested # None
    /\ vest.growth_rate = Zero
    /\ vest.frequency = "quarterly"
    /\ vest.cliff_months > 0
    /\ Elapsed > vest.cliff_months
    /\ RLt(Zero, vested)
    /\ RLt(vested, vest.value)


-----------------------------------------------------------------------------
(* api/compare.py, api/scenario.py                                         *)

\* fastapi.HTTPException(status_code=...), a subclass of Exception;
\* service_calls counts the service calls the handler made before it
HTTPException(status_code, service_calls) ==
    [kind |-> "http_error", status_code |-> status_code,
     service_calls |-> service_calls]

\* raised inside the handler's try block
Raised(outcome) == outcome.kind \in {"error", "http_error"}

\* except Exception as e: raise HTTPException(status_code=500, ...)
except_exception(outcome) ==
    IF Raised(outcome) THEN HTTPException(500, outcome.service_calls)
    ELSE outcome

\* [self.compute_total_comp(offer, years) for offer in offers]
compare_offers(offers, years) ==
    Projections([i \in 1..Len(offers) |-> compute_total_comp(offers[i], years)])

\* ComparisonResponse(projections=projections), or what the call raised
ComparisonResponse(projections) ==
    IF IsError(projections)
    THEN [kind |-> "error", exc |-> projections.exc, service_calls |-> 1]
    ELSE [kind |-> "response", projections |-> projections.list,
          service_calls |-> 1]

\* len(request.offers) > 10
MaxOffers == 10

\* the body of the try block of the compare endpoint
compare_offers_body(request) ==
    IF request.offers = <<>> THEN HTTPException(400, 0)
    ELSE IF Len(request.offers) > MaxOffers THEN HTTPException(400, 0)
    ELSE ComparisonResponse(compare_offers(request.offers, request.projection_years))

\* POST /compare/
compare_offers_endpoint(request) == except_exception(compare_offers_body(request))

scenario_branch_exit_first(new_start_date, exit_valuation) ==
    IF Truthy(exit_valuation) THEN "exit"
    ELSE IF Truthy(new_start_date) THEN "start_date"
    ELSE "base"

\* if request.new_start_date: ... elif request.exit_valuation: ... else: ...
scenario_branch(new_start_date, exit_valuation) ==
    IF Truthy(new_start_date) THEN "start_date"
    ELSE IF Truthy(exit_valuation) THEN "exit"
    ELSE "base"

\* the body of the try block of the scenario endpoint
run_scenario_body(request) ==
    IF scenario_branch(request.new_start_date, request.exit_valuation) = "start_date"
    THEN simulate_start_date_offset(request.offer, request.new_start_date,
                                    request.projection_years)
    ELSE IF scenario_branch(request.new_start_date, request.exit_valuation) = "exit"
    THEN simulate_exit(request.offer, request.exit_valuation, 4,
                       request.projection_years)
    ELSE compute_total_comp(request.offer, request.projection_years)

\* POST /scenario/
run_scenario(request) ==
    IF IsError(run_scenario_body(request)) THEN HTTPException(500, 1)
    ELSE run_scenario_body(request)

-----------------------------------------------------------------------------
(* Calls of the projection and scenario services on one offer.             *)

MaxYears == 4

Years == 1..MaxYears

\* projection_years: Field(default=4, ge=1, le=6)
MaxProjectionYears == 6

ProjectionYears == 1..MaxProjectionYears

Pay ==
    [base_salary |-> R(180000), signing_bonus |-> R(25000),
     bonus_percentage |-> R(15), bonus_fixed |-> Zero]

OtherPay ==
    [base_salary |-> R(120000), signing_bonus |-> R(10000),
     bonus_percentage |-> Rat(25, 2), bonus_fixed |-> R(5000)]

NoPay ==
    [base_salary |-> Zero, signing_bonus |-> Zero,
     bonus_percentage |-> Zero, bonus_fixed |-> Zero]

\* the same pay every year
FlatPay ==
    [base_salary |-> R(100000), signing_bonus |-> Zero,
     bonus_percentage |-> R(10), bonus_fixed |-> Zero]

\* 29 February 2024 has no counterpart in 2025..2027
OfferStarts == {Date(2024, 1, 15), Date(2024, 2, 29)}

Schedules ==
    { [cliff_months |-> 0, duration_months |-> 12, frequency |-> "monthly"],
      [cliff_months |-> 12, duration_months |-> 24, frequency |-> "quarterly"],
      [cliff_months |-> 6, duration_months |-> 24, frequency |-> "annually"],
      [cliff_months |-> 0, duration_months |-> 10, frequency |-> "quarterly"],
      [cliff_months |-> 12, duration_months |-> 48, frequency |-> "monthly"] }

Grants(offer_start) ==
    [ type : {"RSU"},
      value : {R(120000)},
      vesting_schedule : Schedules,
      start_date : {offer_start, Date(2023, 7, 15), Date(2024, 3, 1)},
      refresh_rate : {None, R(25)},
      growth_rate : GrowthRates ]

SecondGrant(offer_start) ==
    [ type |-> "option", value |-> R(60000),
      vesting_schedule |->
          [cliff_months |-> 0, duration_months |-> 12, frequency |-> "monthly"],
      start_date |-> offer_start, refresh_rate |-> R(10), growth_rate |-> Zero ]

\* the grant of the worked example: 200000 over 48 months, 12-month cliff
ExampleGrant(offer_start) ==
    [ type |-> "RSU", value |-> R(200000),
      vesting_schedule |->
          [cliff_months |-> 12, duration_months |-> 48, frequency |-> "monthly"],
      start_date |-> offer_start, refresh_rate |-> Zero, growth_rate |-> Zero ]

\* a grant that starts after the evaluation date of projection year 2
LateGrant ==
    [ type |-> "RSU", value |-> R(120000),
      vesting_schedule |->
          [cliff_months |-> 0, duration_months |-> 12, frequency |-> "monthly"],
      start_date |-> Date(2025, 7, 15), refresh_rate |-> R(25), growth_rate |-> Zero ]

GrantLists(offer_start) ==
    {<<>>} \cup { <<g>> : g \in Grants(offer_start) }
           \cup { <<g, SecondGrant(offer_start)>> : g \in Grants(offer_start) }

\* every growth exponent the projection of o over `years` years evaluates is
\* one the rationals can hold
offer_representable(o, years) ==
    \A i \in 1..Len(o.equity_grants) : \A year \in 1..years :
        LET g == o.equity_grants[i]
            year_date == get_year_date(o.start_date, year)
        IN  IF g.growth_rate.n <= 0 THEN TRUE
            ELSE IF IsError(year_date) THEN TRUE
            ELSE PowDefined(RAdd(One, g.growth_rate),
                            Rat(months_between_dates(g.start_date, year_date), 12))

MakeOffer(pay, equity_grants, start_date) ==
    [ offer_name |-> <<"Offer">>,
      base_salary |-> pay.base_salary,
      signing_bonus |-> pay.signing_bonus,
      bonus_percentage |-> pay.bonus_percentage,
      bonus_fixed |-> pay.bonus_fixed,
      equity_grants |-> equity_grants,
      start_date |-> start_date ]

Offers ==
    { o \in UNION { { MakeOffer(Pay, gl, sd) : gl \in GrantLists(sd) }
                        \cup { MakeOffer(OtherPay, gl, sd) :
                                 gl \in {l \in GrantLists(sd) : Len(l) = 2} }
                        \cup { MakeOffer(NoPay, <<>>, sd),
                               MakeOffer(NoPay, <<SecondGrant(sd)>>, sd),
                               MakeOffer(Pay, <<ExampleGrant(sd)>>, sd),
                               MakeOffer(FlatPay, <<>>, sd),
                               MakeOffer(Pay, <<LateGrant>>, sd) } :
                    sd \in OfferStarts } :
        offer_representable(o, MaxYears + 1) }

NewStartDates == {Date(2024, 2, 29), Date(2024, 3, 1), Date(2024, 7, 15)}

ExitValuations == {R(1000000000), R(2000000000)}

ExitYears == 1..(MaxYears + 1)

RefreshRates == {Zero, R(50)}

IntValue(k) == [v |-> k]

Scenario(type, new_start_date, exit_valuation, exit_year, growth_rate, refresh_rate) ==
    [ type |-> type, new_start_date |-> new_start_date,
      exit_valuation |-> exit_valuation, exit_year |-> exit_year,
      growth_rate |-> growth_rate, refresh_rate |-> refresh_rate ]

ScenarioDescriptors ==
    { Scenario("start_date", Date(2024, 7, 15), None, None, None, None),
      Scenario("start_date", None, None, None, None, None),
      Scenario("exit", None, R(2000000000), None, None, None),
      Scenario("exit", None, R(1000000000), IntValue(1), None, None),
      Scenario("exit", None, None, IntValue(2), None, None),
      Scenario("exit", None, Zero, IntValue(2), None, None),
      Scenario("growth_rate", None, None, None, Rat(3, 20), None),
      Scenario("growth_rate", None, None, None, Zero, None),
      Scenario("growth_rate", None, None, None, None, None),
      Scenario("refresh_rate", None, None, None, None, R(50)),
      Scenario("refresh_rate", None, None, None, None, None),
      Scenario("bonus", None, None, None, Rat(3, 20), R(50)),
      Scenario("none", None, R(1000000000), None, None, None) }

SecondDescriptors ==
    { Scenario("exit", None, None, None, None, None),
      Scenario("refresh_rate", None, None, None, None, Zero) }

\* descriptors with a field of the wrong type or out of range
MalformedDescriptors ==
    { Scenario("start_date", Str("2024-07-15"), None, None, None, None),
      Scenario("refresh_rate", None, None, None, None, R(-5)),
      Scenario("exit", None, R(2000000000), IntValue(0), None, None) }

ScenarioLists ==
    {<<>>} \cup { <<a>> : a \in ScenarioDescriptors \cup MalformedDescriptors }
           \cup { <<a, b>> : a \in ScenarioDescriptors \cup MalformedDescriptors,
                             b \in SecondDescriptors }
           \cup { <<a, b>> : a \in {s \in ScenarioDescriptors : s.type = "growth_rate"},
                             b \in MalformedDescriptors }

\* the offers a scenario projects are representable
scenario_representable(o, scenario, years) ==
    IF scenario.type = "start_date" /\ IsDate(scenario.new_start_date)
    THEN offer_representable(shifted_offer(o, scenario.new_start_date), years)
    ELSE IF scenario.type = "growth_rate" /\ scenario.growth_rate # None
    THEN offer_representable(with_growth_rate(o, scenario.growth_rate), years)
    ELSE TRUE

Init ==
    /\ offer \in Offers
    /\ op = "none"
    /\ args = None
    /\ result = None
    /\ vest = None
    /\ current_date = None
    /\ vested = None

ComputeTotalComp(years) ==
    /\ op = "none"
    /\ op' = "compute_total_comp"
    /\ args' = [years |-> years]
    /\ result' = compute_total_comp(offer, years)
    /\ UNCHANGED <<offer, vest, current_date, vested>>

SimulateStartDateOffset(new_start_date, years) ==
    /\ op = "none"
    /\ offer_representable(shifted_offer(offer, new_start_date), years) = TRUE
    /\ op' = "simulate_start_date_offset"
    /\ args' = [years |-> years, new_start_date |-> new_start_date]
    /\ result' = simulate_start_date_offset(offer, new_start_date, years)
    /\ offer' = caller_offer_after(offer, shifted_offer(offer, new_start_date))
    /\ UNCHANGED <<vest, current_date, vested>>

SimulateExit(exit_valuation, exit_year, years) ==
    /\ op = "none"
    /\ op' = "simulate_exit"
    /\ args' = [years |-> years, exit_valuation |-> exit_valuation,
                exit_year |-> exit_year]
    /\ result' = simulate_exit(offer, exit_valuation, exit_year, years)
    /\ UNCHANGED <<offer, vest, current_date, vested>>

SimulateExitScenario(exit_valuation, exit_year, years) ==
    /\ op = "none"
    /\ op' = "simulate_exit_scenario"
    /\ args' = [years |-> years, exit_valuation |-> exit_valuation,
                exit_year |-> exit_year]
    /\ result' = simulate_exit_scenario(offer, exit_valuation, exit_year, years)
    /\ UNCHANGED <<offer, vest, current_date, vested>>

SimulateGrowthRateChange(new_growth_rate, years) ==
    /\ op = "none"
    /\ offer_representable(with_growth_rate(offer, new_growth_rate), years) = TRUE
    /\ op' = "simulate_growth_rate_change"
    /\ args' = [years |-> years, new_growth_rate |-> new_growth_rate]
    /\ result' = simulate_growth_rate_change(offer, new_growth_rate, years)
    /\ offer' = caller_offer_after(offer, with_growth_rate(offer, new_growth_rate))
    /\ UNCHANGED <<vest, current_date, vested>>

SimulateRefreshRateChange(new_refresh_rate, years) ==
    /\ op = "none"
    /\ op' = "simulate_refresh_rate_change"
    /\ args' = [years |-> years, new_refresh_rate |-> new_refresh_rate]
    /\ result' = simulate_refresh_rate_change(offer, new_refresh_rate, years)
    /\ offer' = caller_offer_after(offer, with_refresh_rate(offer, new_refresh_rate))
    /\ UNCHANGED <<vest, current_date, vested>>

CompareScenarios(scenarios, years) ==
    /\ op = "none"
    /\ (\A i \in 1..Len(scenarios) :
           scenario_representable(offer, scenarios[i], years)) = TRUE
    /\ op' = "compare_scenarios"
    /\ args' = [years |-> years, scenarios |-> scenarios]
    /\ result' = compare_scenarios(offer, scenarios, years)
    /\ offer' = offer_after_scenarios(offer, scenarios)
    /\ UNCHANGED <<vest, current_date, vested>>

\* the projections a caller compares: the base projection of the offer and a
\* scenario projection of it, each over its own number of years
CalculateYearEquityValue(year) ==
    /\ op = "none"
    /\ offer_representable(offer, year) = TRUE
    /\ op' = "calculate_year_equity_value"
    /\ args' = [year |-> year]
    /\ result' = NumberOrError(calculate_year_equity_value(offer, year))
    /\ UNCHANGED <<offer, vest, current_date, vested>>

CalculateCagr(years) ==
    /\ op = "none"
    /\ cagr_root_representable(compute_total_comp(offer, years), years) = TRUE
    /\ op' = "calculate_cagr"
    /\ args' = [years |-> years]
    /\ result' = calculate_cagr(offer, years)
    /\ UNCHANGED <<offer, vest, current_date, vested>>

CalculateBreakdownPercentages(years) ==
    /\ op = "none"
    /\ op' = "calculate_breakdown_percentages"
    /\ args' = [years |-> years]
    /\ result' = calculate_breakdown_percentages(offer, years)
    /\ UNCHANGED <<offer, vest, current_date, vested>>

ImpactScenarios == {"refresh_rate", "exit"}

scenario_projection_of(o, scenario_type, years) ==
    IF scenario_type = "exit" THEN simulate_exit(o, R(2000000000), 1, years)
    ELSE simulate_refresh_rate_change(o, R(50), years)

CalculateScenarioImpact(base_projection, scenario_projection) ==
    /\ op = "none"
    /\ IsError(base_projection) = FALSE
    /\ IsError(scenario_projection) = FALSE
    /\ op' = "calculate_scenario_impact"
    /\ args' = [base_projection |-> base_projection,
                scenario_projection |-> scenario_projection]
    /\ result' = calculate_scenario_impact(base_projection, scenario_projection)
    /\ UNCHANGED <<offer, vest, current_date, vested>>

\* request.offers: the offer n times over, named "Offer 1" .. "Offer n"
RequestSizes == {0, 1, 2, MaxOffers, MaxOffers + 1}

RequestOffers(o, n) ==
    [i \in 1..n |-> [o EXCEPT !.offer_name = <<"Offer ", ToString(i)>>]]

ComparisonRequest(offers, projection_years) ==
    [offers |-> offers, projection_years |-> projection_years]

CompareOffersEndpoint(n, years) ==
    /\ op = "none"
    /\ op' = "compare_offers_endpoint"
    /\ args' = ComparisonRequest(RequestOffers(offer, n), years)
    /\ result' = compare_offers_endpoint(ComparisonRequest(RequestOffers(offer, n), years))
    /\ UNCHANGED <<offer, vest, current_date, vested>>

\* new_start_date: Optional[date]; exit_valuation: Optional[float], ge=0
RequestStartDates == {None, Date(2024, 2, 29), Date(2024, 7, 15)}

RequestExitValuations == {None, Zero, R(2000000000)}

ScenarioRequest(o, new_start_date, exit_valuation, projection_years) ==
    [offer |-> o, new_start_date |-> new_start_date,
     exit_valuation |-> exit_valuation, projection_years |-> projection_years]

RunScenario(new_start_date, exit_valuation, years) ==
    /\ op = "none"
    /\ (IF new_start_date = None THEN TRUE
        ELSE offer_representable(shifted_offer(offer, new_start_date), years)) = TRUE
    /\ op' = "run_scenario"
    /\ args' = ScenarioRequest(offer, new_start_date, exit_valuation, years)
    /\ result' = run_scenario(ScenarioRequest(offer, new_start_date, exit_valuation, years))
    /\ UNCHANGED <<offer, vest, current_date, vested>>

\* the caller takes the returned value and is ready for its next call
Return ==
    /\ op # "none"
    /\ op' = "none"
    /\ args' = None
    /\ result' = None
    /\ UNCHANGED <<offer, vest, current_date, vested>>

Next ==
    \/ Return
    \/ \E years \in Years : ComputeTotalComp(years)
    \/ \E d \in NewStartDates, years \in Years : SimulateStartDateOffset(d, years)
    \/ \E v \in ExitValuations, y \in ExitYears, years \in Years :
          SimulateExit(v, y, years)
    \/ \E v \in ExitValuations, y \in ExitYears, years \in Years :
          SimulateExitScenario(v, y, years)
    \/ \E g \in GrowthRates, years \in Years : SimulateGrowthRateChange(g, years)
    \/ \E r \in RefreshRates, years \in Years : SimulateRefreshRateChange(r, years)
    \/ \E l \in ScenarioLists, years \in Years : CompareScenarios(l, years)
    \/ \E year \in ProjectionYears : CalculateYearEquityValue(year)
    \/ \E years \in Years : CalculateCagr(years)
    \/ \E years \in Years : CalculateBreakdownPercentages(years)
    \/ \E years \in Years, s \in ImpactScenarios, scenario_years \in Years :
          CalculateScenarioImpact(compute_total_comp(offer, years),
                                  scenario_projection_of(offer, s, scenario_years))
    \/ \E n \in RequestSizes, years \in Years : CompareOffersEndpoint(n, years)
    \/ \E d \in RequestStartDates, v \in RequestExitValuations, years \in Years :
          RunScenario(d, v, years)

Spec == Init /\ [][Next]_vars


-----------------------------------------------------------------------------
(* Properties of the projections.                                          *)

ProjectionOps ==
    { "compute_total_comp", "simulate_start_date_offset", "simulate_exit",
      "simulate_growth_rate_change", "simulate_refresh_rate_change" }

\* the offer the last call projected
ProjectedOffer ==
    IF op = "simulate_start_date_offset"
    THEN shifted_offer(offer, args.new_start_date)
    ELSE IF op = "simulate_growth_rate_change"
    THEN with_growth_rate(offer, args.new_growth_rate)
    ELSE IF op = "simulate_refresh_rate_change"
    THEN with_refresh_rate(offer, args.new_refresh_rate)
    ELSE offer

\* the evaluation date of projection year k exists in the calendar
YearDateExists(start_date, k) ==
    ValidDate(Date(start_date.y + k - 1, start_date.m, start_date.d))

\* every YearlyProjection the last call returned
ProducedYears ==
    IF result.kind = "projection"
    THEN { result.years[i] : i \in 1..Len(result.years) }
    ELSE IF result.kind = "projections"
    THEN UNION { { result.list[k].years[i] : i \in 1..Len(result.list[k].years) } :
                 k \in 1..Len(result.list) }
    ELSE {}

\* C1: every YearlyProjection produced (by compute_total_comp and by every
\* scenario transform, the exit scenario included) has
\* total = base_salary + bonus + equity_value.
C1_TotalIsSum ==
    \A yp \in ProducedYears :
        yp.total = RAdd(RAdd(yp.base_salary, yp.bonus), yp.equity_value)

C1_Witness ==
    /\ op = "simulate_exit"
    /\ result.kind = "projection"
    /\ args.exit_valuation = R(2000000000)
    /\ \E i \in 1..Len(result.years) :
          /\ i >= args.exit_year
          /\ result.years[i].equity_value.n > 0
          /\ result.years[i].bonus.n > 0

\* C2 as stated: for every offer and every year count N >= 1,
\* compute_total_comp, simulate_exit and the other transforms return a
\* projection with exactly N entries numbered 1..N in order.
C2_AlwaysNYears ==
    op \in ProjectionOps =>
        /\ result.kind = "projection"
        /\ Len(result.years) = args.years
        /\ \A i \in 1..Len(result.years) : result.years[i].year = i

\* C2 amended: the same, for every call in which the projected offer's
\* start_date exists in each of the N projected calendar years (any date but
\* 29 February once N >= 2); otherwise the call raises ValueError and
\* returns no projection.
C2_NYearsWhenDatesExist ==
    op \in ProjectionOps =>
        IF \A k \in 1..args.years : YearDateExists(ProjectedOffer.start_date, k)
        THEN /\ result.kind = "projection"
             /\ Len(result.years) = args.years
             /\ \A i \in 1..Len(result.years) : result.years[i].year = i
        ELSE result = Error("ValueError")

C2_Witness ==
    /\ op = "simulate_exit"
    /\ args.years = MaxYears
    /\ result.kind = "projection"
    /\ Len(result.years) = MaxYears
    /\ offer.equity_grants # <<>>

\* the bonus the offer pays every year, without the signing bonus
AnnualBonus(o) ==
    RAdd(o.bonus_fixed, RDiv(RMul(o.base_salary, o.bonus_percentage), R(100)))

VestedSum(o, k) ==
    RSum([i \in 1..Len(o.equity_grants) |->
            grant_vested_value(o.equity_grants[i],
                Date(o.start_date.y + k - 1, o.start_date.m, o.start_date.d))])

\* C7: in projection year 1 the refresh contribution of every grant is 0
\* whatever its refresh_rate, so the year-1 equity value is the sum of the
\* grants' vested values alone.
C7_NoRefreshInYearOne ==
    ( /\ op \in ProjectionOps \ {"simulate_exit"}
      /\ result.kind = "projection" ) =>
        result.years[1].equity_value = VestedSum(ProjectedOffer, 1)

C7_Witness ==
    /\ op = "simulate_refresh_rate_change"
    /\ args.new_refresh_rate.n > 0
    /\ result.kind = "projection"
    /\ Len(result.years) >= 2
    /\ result.years[1].equity_value.n > 0
    /\ RLt(result.years[1].equity_value, result.years[2].equity_value)

\* C8: simulate_exit_scenario returns one value per year 1..years; the value
\* of a year < exit_year is the sum of the grants' ordinary vested values,
\* the value of a year >= exit_year is that sum times
\* exit_valuation / 1_000_000_000.
C8_ExitMultiplierFromExitYear ==
    (op = "simulate_exit_scenario" /\ result.kind = "values") =>
        /\ Len(result.list) = args.years
        /\ \A k \in 1..Len(result.list) :
              result.list[k] =
                  (IF k < args.exit_year THEN VestedSum(offer, k)
                   ELSE RMul(VestedSum(offer, k),
                             RDiv(args.exit_valuation, R(1000000000))))

C8_Witness ==
    /\ op = "simulate_exit_scenario"
    /\ result.kind = "values"
    /\ args.exit_valuation = R(2000000000)
    /\ args.exit_year = 2
    /\ Len(result.list) >= 2
    /\ result.list[1].n > 0
    /\ result.list[1] = VestedSum(offer, 1)
    /\ result.list[2] = RMul(VestedSum(offer, 2), R(2))
    /\ \E i \in 1..Len(offer.equity_grants) :
          offer.equity_grants[i].refresh_rate # None

\* C9: with exit_valuation = 1_000_000_000 and exit_year = 1 the projection
\* of simulate_exit has in every year the equity_value and total of the base
\* projection compute_total_comp of the same offer, also for offers whose
\* grants have refresh_rate > 0.
C9_ExitAtParEqualsBase ==
    ( /\ op = "simulate_exit"
      /\ args.exit_valuation = R(1000000000)
      /\ args.exit_year = 1
      /\ result.kind = "projection" ) =>
        \A i \in 1..Len(result.years) :
            /\ result.years[i].equity_value =
                  compute_total_comp(offer, args.years).years[i].equity_value
            /\ result.years[i].total =
                  compute_total_comp(offer, args.years).years[i].total


\* the descriptor names one of the four scenario types and carries the field
\* that type requires
KnownWithField(scenario) ==
    IF scenario.type = "start_date" THEN scenario.new_start_date # None
    ELSE IF scenario.type = "exit" THEN scenario.exit_valuation # None
    ELSE IF scenario.type = "growth_rate" THEN scenario.growth_rate # None
    ELSE IF scenario.type = "refresh_rate" THEN scenario.refresh_rate # None
    ELSE FALSE

\* the positions, in input order, of the descriptors of that kind
EmittingPositions(scenarios) ==
    LET E == {i \in 1..Len(scenarios) : KnownWithField(scenarios[i])}
    IN  [k \in 1..Cardinality(E) |->
            CHOOSE i \in E : Cardinality({j \in E : j < i}) = k - 1]

Malformed(scenario) ==
    IF scenario.type = "start_date"
    THEN scenario.new_start_date # None /\ ~IsDate(scenario.new_start_date)
    ELSE IF scenario.type = "exit"
    THEN scenario.exit_year # None /\ scenario.exit_year.v < 1
    ELSE IF scenario.type = "refresh_rate"
    THEN scenario.refresh_rate # None /\ scenario.refresh_rate.n < 0
    ELSE FALSE

\* how many descriptors are well-formed: known type, required field, nothing
\* malformed
WellFormedCount(scenarios) ==
    Cardinality({i \in 1..Len(scenarios) :
                    KnownWithField(scenarios[i]) /\ ~Malformed(scenarios[i])})

\* C11: in compare_scenarios a descriptor whose field is of the wrong type or
\* out of range is a silent no-op for that entry: the batch returns the base
\* projection and the projections of the well-formed entries, and no error
\* escapes.  (Batches with an exit_valuation of 0 are left to C10.)
C11_MalformedIsNoOp ==
    ( /\ op = "compare_scenarios"
      /\ \A i \in 1..Len(args.scenarios) : args.scenarios[i].exit_valuation # Zero
      /\ \A k \in 1..args.years : YearDateExists(offer.start_date, k) ) =>
        /\ result.kind = "projections"
        /\ Len(result.list) = 1 + WellFormedCount(args.scenarios)

\* the projection compare_scenarios emits for one descriptor when it is
\* computed from offer o alone
single_scenario(o, scenario, i, years) ==
    Flatten(<<scenario_projections(o, scenario, i, years)>>)

\* C12: no scenario operation mutates the caller's offer: over every call
\* of the transforms, of simulate_exit and of compare_scenarios the offer
\* (start_date, every grant's start_date, growth_rate, refresh_rate, value)
\* stays as it was, and in a batch every scenario is computed from the
\* original base offer, not from a previous scenario's output.
C12_OfferNotMutated ==
    [][ /\ offer' = offer
        /\ (op' = "compare_scenarios" /\ result'.kind = "projections") =>
              result'.list =
                  <<compute_total_comp(offer, args'.years)>> \o
                  Flatten([i \in 1..Len(args'.scenarios) |->
                      single_scenario(offer, args'.scenarios[i], i - 1, args'.years)])
      ]_vars

C12_Witness ==
    /\ op = "compare_scenarios"
    /\ result.kind = "projections"
    /\ Len(result.list) = 3
    /\ args.scenarios[1].type = "start_date"
    /\ args.scenarios[2].type = "refresh_rate"
    /\ \E i \in 1..Len(offer.equity_grants) :
          offer.equity_grants[i].refresh_rate # None
    /\ result.list[2].years # result.list[1].years
    /\ result.list[3].years # result.list[1].years

\* C13: calculate_scenario_impact called with projections of different year
\* counts reports the mismatch as an error and returns no result computed
\* from a truncated pairing of years.
C13_MismatchIsError ==
    ( /\ op = "calculate_scenario_impact"
      /\ Len(args.base_projection.years) # Len(args.scenario_projection.years) ) =>
        IsError(result)

\* the totals of the years of a projection
Totals(projection) ==
    [i \in 1..Len(projection.years) |-> projection.years[i].total]

\* C14: for projections of equal year count, total_difference is the sum of
\* the scenario totals minus the sum of the base totals, percentage_change is
\* total_difference / base_total * 100 or 0 for a base total of 0, entry k of
\* the per-year list has difference scenario.total[k] - base.total[k] and
\* percentage_change 0 when base.total[k] is 0, the per-year differences sum
\* to total_difference, and nothing divides by zero.
C14_ImpactValues ==
    ( /\ op = "calculate_scenario_impact"
      /\ Len(args.base_projection.years) = Len(args.scenario_projection.years) ) =>
        /\ result.kind = "impact"
        /\ result.total_difference =
              RSub(RSum(Totals(args.scenario_projection)),
                   RSum(Totals(args.base_projection)))
        /\ result.percentage_change =
              (IF RSum(Totals(args.base_projection)) = Zero THEN Zero
               ELSE RMul(RDiv(result.total_difference,
                              RSum(Totals(args.base_projection))), R(100)))
        /\ Len(result.yearly_differences) = Len(args.base_projection.years)
        /\ \A k \in 1..Len(result.yearly_differences) :
              /\ result.yearly_differences[k].year = k
              /\ result.yearly_differences[k].difference =
                    RSub(Totals(args.scenario_projection)[k],
                         Totals(args.base_projection)[k])
              /\ result.yearly_differences[k].percentage_change =
                    (IF Totals(args.base_projection)[k] = Zero THEN Zero
                     ELSE RMul(RDiv(result.yearly_differences[k].difference,
                                    Totals(args.base_projection)[k]), R(100)))
        /\ RSum([k \in 1..Len(result.yearly_differences) |->
                    result.yearly_differences[k].difference])
              = result.total_difference

C14_Witness ==
    /\ op = "calculate_scenario_impact"
    /\ result.kind = "impact"
    /\ Len(args.base_projection.years) = Len(args.scenario_projection.years)
    /\ Len(result.yearly_differences) >= 2
    /\ args.base_projection.years[1].total = Zero
    /\ result.yearly_differences[1].percentage_change = Zero
    /\ result.yearly_differences[2].difference.n > 0
    /\ result.percentage_change.n > 0

\* C15: calculate_breakdown_percentages returns base, bonus and equity
\* percentages that sum to 100 whenever the summed total compensation of the
\* projected years is > 0, and returns all three as 0 when it is 0.
C15_BreakdownSumsTo100 ==
    (op = "calculate_breakdown_percentages" /\ result.kind = "breakdown") =>
        IF RLt(Zero, projection_total(compute_total_comp(offer, args.years)))
        THEN RAdd(RAdd(result.base, result.bonus), result.equity) = R(100)
        ELSE result.base = Zero /\ result.bonus = Zero /\ result.equity = Zero

C15_Witness ==
    /\ op = "calculate_breakdown_percentages"
    /\ result.kind = "breakdown"
    /\ result.base.n > 0
    /\ result.bonus.n > 0
    /\ result.equity.n > 0
    /\ result.equity.d > 1

\* the offer of the worked example
ExampleOffer == MakeOffer(Pay, <<ExampleGrant(Date(2024, 1, 15))>>, Date(2024, 1, 15))

\* C16: for the offer base_salary 180000, bonus_percentage 15, signing_bonus
\* 25000 with one RSU grant of 200000, cliff 12, duration 48, monthly,
\* growth_rate 0, refresh_rate 0, grant start = offer start, the equity value
\* is 0 in year 1, 50000 in year 2, 100000 in year 3, 150000 in year 4 and
\* 200000 in year 5.
C16_ExampleEquity ==
    /\ (op = "calculate_year_equity_value" /\ offer = ExampleOffer /\ args.year <= 5) =>
          result = Number(R(<<0, 50000, 100000, 150000, 200000>>[args.year]))
    /\ (op = "compute_total_comp" /\ offer = ExampleOffer) =>
          /\ result.kind = "projection"
          /\ \A k \in 1..Len(result.years) :
                k <= 5 => result.years[k].equity_value =
                              R(<<0, 50000, 100000, 150000, 200000>>[k])

C16_Witness ==
    /\ op = "calculate_year_equity_value"
    /\ offer = ExampleOffer
    /\ args.year = 5
    /\ result = Number(R(200000))

\* the total of year k of the base projection of the offer over `years` years
BaseTotal(years, k) == compute_total_comp(offer, years).years[k].total

\* C17: calculate_cagr returns 0 whenever years < 2 or the year-1 total is
\* <= 0; otherwise it is (last total / first total) ** (1 / (years - 1)) - 1,
\* from the first and last projected years alone, and 0 when those two
\* totals are equal.
C17_CagrValue ==
    (op = "calculate_cagr" /\ result.kind = "number") =>
        IF args.years < 2 THEN result.value = Zero
        ELSE IF RLe(BaseTotal(args.years, 1), Zero) THEN result.value = Zero
        ELSE /\ RPow(RAdd(result.value, One), R(args.years - 1)) =
                    RDiv(BaseTotal(args.years, args.years), BaseTotal(args.years, 1))
             /\ BaseTotal(args.years, args.years) = BaseTotal(args.years, 1)
                    => result.value = Zero

C17_Witness ==
    /\ op = "calculate_cagr"
    /\ result.kind = "number"
    /\ args.years >= 2
    /\ result.value.n > 0
    /\ offer.base_salary.n > 0

\* the vested fraction the quantisation rule gives for m elapsed months
QuantisedFraction(m, duration_months, frequency) ==
    IF frequency = "quarterly" THEN Rat((m \div 3) * 3, duration_months)
    ELSE IF frequency = "annually" THEN Rat((m \div 12) * 12, duration_months)
    ELSE Rat(m, duration_months)

\* C18: for elapsed months m with cliff_months <= m < duration_months and
\* growth 0 the vested fraction is m / duration_months for monthly,
\* floor(m / 3) * 3 / duration_months for quarterly and
\* floor(m / 12) * 12 / duration_months for annually.
C18_QuantisedFraction ==
    ( /\ vested # None
      /\ vest.growth_rate = Zero
      /\ vest.cliff_months <= Elapsed
      /\ Elapsed < vest.duration_months ) =>
        vested = RMul(vest.value,
                      QuantisedFraction(Elapsed, vest.duration_months, vest.frequency))

\* value * refresh_rate / 100 summed over the grants of o with refresh_rate > 0
RefreshSum(o) ==
    RSum([i \in 1..Len(o.equity_grants) |->
            IF o.equity_grants[i].refresh_rate = None THEN Zero
            ELSE IF o.equity_grants[i].refresh_rate.n <= 0 THEN Zero
            ELSE RDiv(RMul(o.equity_grants[i].value, o.equity_grants[i].refresh_rate),
                      R(100))])

\* C19: for every projection year >= 2 and grants with growth_rate 0, each
\* grant with refresh_rate > 0 contributes exactly value * refresh_rate / 100,
\* the same in every such year and whatever the grant's vesting state (also
\* before its cliff or before its start date), so the year's equity is the
\* vested value plus value * refresh_rate / 100.
C19_FlatRefreshFromYearTwo ==
    /\ ( /\ op \in ProjectionOps \ {"simulate_exit"}
         /\ result.kind = "projection"
         /\ \A i \in 1..Len(ProjectedOffer.equity_grants) :
               ProjectedOffer.equity_grants[i].growth_rate = Zero ) =>
           \A k \in 2..Len(result.years) :
               result.years[k].equity_value =
                   RAdd(VestedSum(ProjectedOffer, k), RefreshSum(ProjectedOffer))
    /\ ( /\ op = "calculate_year_equity_value"
         /\ result.kind = "number"
         /\ args.year >= 2
         /\ \A i \in 1..Len(offer.equity_grants) :
               offer.equity_grants[i].growth_rate = Zero ) =>
           result.value = RAdd(VestedSum(offer, args.year), RefreshSum(offer))

C19_Witness ==
    /\ op = "compute_total_comp"
    /\ result.kind = "projection"
    /\ Len(result.years) >= 3
    /\ offer.equity_grants = <<LateGrant>>
    /\ VestedSum(offer, 2) = Zero
    /\ result.years[2].equity_value = R(30000)
    /\ result.years[3].equity_value = RAdd(VestedSum(offer, 3), R(30000))
    /\ VestedSum(offer, 3).n > 0

\* o with every growth_rate <= 0 replaced by 0
WithoutDecline(o) ==
    [o EXCEPT !.equity_grants = [i \in 1..Len(o.equity_grants) |->
        [o.equity_grants[i] EXCEPT
            !.growth_rate = IF o.equity_grants[i].growth_rate.n <= 0 THEN Zero
                            ELSE o.equity_grants[i].growth_rate]]]

\* C20: growth is applied only when growth_rate > 0: with a growth_rate <= 0
\* the per-year values are those with growth_rate 0, so a growth-rate
\* override with a negative rate gives the projection of an override with
\* rate 0 and never lowers equity.
C20_DeclineIsNoGrowth ==
    /\ (op = "simulate_growth_rate_change" /\ args.new_growth_rate.n <= 0) =>
          result = simulate_growth_rate_change(offer, Zero, args.years)
    /\ op = "compute_total_comp" =>
          result = compute_total_comp(WithoutDecline(offer), args.years)
    /\ (op = "calculate_year_equity_value" /\ result.kind = "number") =>
          result.value = calculate_year_equity_value(WithoutDecline(offer), args.year)

C20_Witness ==
    /\ op = "simulate_growth_rate_change"
    /\ args.new_growth_rate.n < 0
    /\ result.kind = "projection"
    /\ Len(result.years) >= 2
    /\ result.years[2].equity_value.n > 0
    /\ \E i \in 1..Len(offer.equity_grants) : offer.equity_grants[i].growth_rate.n > 0
    /\ result.years[2].equity_value # compute_total_comp(offer, args.years).years[2].equity_value

\* adjusted is o with start_date new_start_date, every grant as many days
\* from the start date as in o, and every other field as in o
ShiftedBySameDays(o, adjusted, new_start_date) ==
    /\ adjusted.start_date = new_start_date
    /\ Len(adjusted.equity_grants) = Len(o.equity_grants)
    /\ \A i \in 1..Len(o.equity_grants) :
          /\ DaysBetween(adjusted.equity_grants[i].start_date, adjusted.start_date)
                = DaysBetween(o.equity_grants[i].start_date, o.start_date)
          /\ [adjusted.equity_grants[i] EXCEPT
                  !.start_date = o.equity_grants[i].start_date] = o.equity_grants[i]
    /\ [adjusted EXCEPT !.start_date = o.start_date,
                        !.equity_grants = o.equity_grants] = o

GrantsStartWithOffer(o) ==
    \A i \in 1..Len(o.equity_grants) : o.equity_grants[i].start_date = o.start_date

\* two projections with the same base, bonus, equity and total in every year
SamePerYear(a, b) ==
    IF a.kind = "projection" /\ b.kind = "projection" THEN a.years = b.years
    ELSE FALSE

\* C21 as stated: simulate_start_date_offset projects the offer with
\* start_date new_start_date and every grant shifted by the same number of
\* days, all other fields unchanged; when every grant starts on the offer's
\* start date the shifted projection has the per-year values of the base
\* projection.
C21_ShiftKeepsProjection ==
    op = "simulate_start_date_offset" =>
        /\ ShiftedBySameDays(offer, ProjectedOffer, args.new_start_date)
        /\ result = compute_total_comp(ProjectedOffer, args.years)
        /\ GrantsStartWithOffer(offer) =>
              SamePerYear(result, compute_total_comp(offer, args.years))

\* C21 amended: the same, the equality of the per-year values holding when
\* both the original and the new start date exist in every projected year;
\* when the new start date does not, the call raises ValueError.
C21_ShiftKeepsProjectionWhenDatesExist ==
    op = "simulate_start_date_offset" =>
        /\ ShiftedBySameDays(offer, ProjectedOffer, args.new_start_date)
        /\ result = compute_total_comp(ProjectedOffer, args.years)
        /\ IF \A k \in 1..args.years : YearDateExists(args.new_start_date, k)
           THEN ( /\ GrantsStartWithOffer(offer)
                  /\ \A k \in 1..args.years : YearDateExists(offer.start_date, k) ) =>
                    SamePerYear(result, compute_total_comp(offer, args.years))
           ELSE result = Error("ValueError")

C21_Witness ==
    /\ op = "simulate_start_date_offset"
    /\ offer.start_date = Date(2024, 1, 15)
    /\ args.new_start_date = Date(2024, 7, 15)
    /\ offer.equity_grants # <<>>
    /\ GrantsStartWithOffer(offer)
    /\ ProjectedOffer.equity_grants[1].start_date = Date(2024, 7, 15)
    /\ result.kind = "projection"
    /\ Len(result.years) >= 2
    /\ result.years[2].equity_value.n > 0
    /\ result.years = compute_total_comp(offer, args.years).years

\* the value of the whole grant at current_date, grown when growth_rate > 0
FullyVestedValue ==
    IF vest.growth_rate.n > 0
    THEN calculate_future_value(vest.value, vest.growth_rate,
             Rat(months_between_dates(vest.grant_start_date, current_date), 12))
    ELSE vest.value

\* C22: with cliff_months > duration_months nothing is vested at any elapsed
\* month count below cliff_months, also at counts from duration_months up
\* to cliff_months - 1; with monthly frequency the whole grant is vested at
\* every count >= cliff_months, so the vested fraction is never strictly
\* between 0 and 1.
C22_NothingUntilCliffPastDuration ==
    (vested # None /\ vest.cliff_months > vest.duration_months) =>
        /\ Elapsed < vest.cliff_months => vested = Zero
        /\ (Elapsed >= vest.cliff_months /\ vest.frequency = "monthly") =>
              vested = FullyVestedValue
        /\ vest.frequency = "monthly" => vested \in {Zero, FullyVestedValue}

C22_Witness ==
    /\ vested = Zero
    /\ vest.value.n > 0
    /\ vest.frequency = "monthly"
    /\ vest.cliff_months > vest.duration_months
    /\ Elapsed >= vest.duration_months
    /\ Elapsed < vest.cliff_months

\* the descriptor passes the test under which compare_scenarios appends a
\* projection
Appends(scenario) ==
    IF scenario.type = "start_date" THEN Truthy(scenario.new_start_date)
    ELSE IF scenario.type = "exit" THEN Truthy(scenario.exit_valuation)
    ELSE IF scenario.type = "growth_rate" THEN scenario.growth_rate # None
    ELSE IF scenario.type = "refresh_rate" THEN scenario.refresh_rate # None
    ELSE FALSE

\* the positions of those descriptors, in input order
AppendingPositions(scenarios) ==
    LET E == {i \in 1..Len(scenarios) : Appends(scenarios[i])}
    IN  [k \in 1..Cardinality(E) |->
            CHOOSE i \in E : Cardinality({j \in E : j < i}) = k - 1]

\* the text after "Scenario k" in the name of a scenario's projection
IsScenarioLabel(scenario, label) ==
    IF scenario.type = "start_date" THEN label = <<": Start Date Change">>
    ELSE IF scenario.type = "exit"
    THEN Len(label) >= 3 /\ label[1] = ": Exit at $" /\ label[Len(label)] = "B"
    ELSE IF scenario.type = "growth_rate"
    THEN Len(label) >= 3 /\ label[1] = ": " /\ label[Len(label)] = "% Growth"
    ELSE Len(label) >= 3 /\ label[1] = ": " /\ label[Len(label)] = "% Refresh"

\* C23: in the output of compare_scenarios the base projection keeps the
\* offer's name and the projection of the descriptor at 1-based position k
\* of the scenarios list is named "Scenario k: <label>"; a skipped
\* descriptor uses up its position, so the numbers can have gaps, and the
\* " (Exit Scenario)" suffix of simulate_exit does not appear.
C23_NamedByInputPosition ==
    (op = "compare_scenarios" /\ result.kind = "projections") =>
        /\ result.list[1].offer_name = offer.offer_name
        /\ Len(result.list) = 1 + Len(AppendingPositions(args.scenarios))
        /\ \A k \in 1..Len(AppendingPositions(args.scenarios)) :
              LET name == result.list[k + 1].offer_name
                  position == AppendingPositions(args.scenarios)[k]
              IN  /\ Len(name) >= 3
                  /\ name[1] = "Scenario "
                  /\ name[2] = ToString(position)
                  /\ IsScenarioLabel(args.scenarios[position],
                                     SubSeq(name, 3, Len(name)))
                  /\ \A j \in 1..Len(name) : name[j] # " (Exit Scenario)"

C23_Witness ==
    /\ op = "compare_scenarios"
    /\ result.kind = "projections"
    /\ Len(args.scenarios) = 2
    /\ ~Appends(args.scenarios[1])
    /\ args.scenarios[2].type = "exit"
    /\ Len(result.list) = 2
    /\ result.list[1].offer_name = <<"Offer">>
    /\ result.list[2].offer_name[1] = "Scenario "
    /\ result.list[2].offer_name[2] = "2"
    /\ result.list[2].offer_name[3] = ": Exit at $"

\* C24: the compare endpoint answers a request with no offers, and one with
\* more than 10 offers, with an HTTP 400 error without having called the
\* projection service; for 1 to 10 offers it calls the service once and
\* returns the projections of the offers in request order.
C24_RejectsWith400 ==
    op = "compare_offers_endpoint" =>
        IF Len(args.offers) = 0 \/ Len(args.offers) > 10
        THEN /\ result.kind = "http_error"
             /\ result.status_code = 400
             /\ result.service_calls = 0
        ELSE /\ result.service_calls = 1
             /\ (\A k \in 1..args.projection_years :
                    YearDateExists(offer.start_date, k)) =>
                   /\ result.kind = "response"
                   /\ Len(result.projections) = Len(args.offers)
                   /\ \A i \in 1..Len(args.offers) :
                         result.projections[i] =
                             compute_total_comp(args.offers[i], args.projection_years)

\* the multiplier-free equity of year k of offer o, refresh grants left out
\* as simulate_exit_scenario leaves them out
PlainExitEquity(o, k) == VestedSum(o, k)

\* C25: the scenario endpoint applies at most one transform, in a fixed
\* order: with new_start_date set, only the start-date shift (an
\* exit_valuation is ignored); otherwise with a non-zero exit_valuation the
\* exit scenario with exit_year 4, so that with projection_years < 4 no year
\* gets the exit multiplier; otherwise, also for exit_valuation 0, the base
\* projection.  An exception of the service becomes an HTTP 500 error.
C25_OneTransformInFixedOrder ==
    op = "run_scenario" =>
        LET expected ==
                IF args.new_start_date # None
                THEN simulate_start_date_offset(args.offer, args.new_start_date,
                                                args.projection_years)
                ELSE IF args.exit_valuation # None /\ args.exit_valuation # Zero
                THEN simulate_exit(args.offer, args.exit_valuation, 4,
                                   args.projection_years)
                ELSE compute_total_comp(args.offer, args.projection_years)
        IN  /\ args.offer = offer
            /\ IF IsError(expected)
               THEN result.kind = "http_error" /\ result.status_code = 500
               ELSE result = expected
            /\ ( /\ result.kind = "projection"
                 /\ args.new_start_date = None
                 /\ args.exit_valuation # None
                 /\ args.exit_valuation # Zero ) =>
                   \A k \in 1..Len(result.years) :
                       result.years[k].equity_value =
                           IF k < 4 THEN PlainExitEquity(offer, k)
                           ELSE RMul(PlainExitEquity(offer, k),
                                     RDiv(args.exit_valuation, R(1000000000)))

C25_Witness ==
    /\ op = "run_scenario"
    /\ args.new_start_date = Date(2024, 7, 15)
    /\ args.exit_valuation = R(2000000000)
    /\ args.projection_years = 4
    /\ result.kind = "projection"
    /\ result.offer_name = offer.offer_name
    /\ result.years[4].equity_value.n > 0
    /\ result # simulate_exit(offer, args.exit_valuation, 4, 4)

\* the months from the start of grant g to the evaluation date of year k of
\* offer o: 12 * (k - 1) plus the month offset between the two start dates
ElapsedInYear(o, g, k) ==
    12 * (k - 1) + months_between_dates(g.start_date, o.start_date)

\* the equity of year k of offer o computed from those month counts alone
EquityByElapsed(o, k) ==
    RSum([i \in 1..Len(o.equity_grants) |->
        LET g == o.equity_grants[i]
            m == ElapsedInYear(o, g, k)
        IN  RAdd(vested_after_cliff(g.value, m, m,
                     g.vesting_schedule.cliff_months,
                     g.vesting_schedule.duration_months,
                     g.vesting_schedule.frequency, g.growth_rate),
                 IF g.refresh_rate = None THEN Zero
                 ELSE IF g.refresh_rate.n <= 0 \/ k <= 1 THEN Zero
                 ELSE with_growth(RDiv(RMul(g.value, g.refresh_rate), R(100)),
                                  g.growth_rate, m))])

\* start_date is 29 February and year k after it is not a leap year
LeapDayMissing(start_date, k) ==
    start_date.m = 2 /\ start_date.d = 29 /\ ~IsLeap(start_date.y + k - 1)

\* C26: projection year k is evaluated at the offer's start_date with the
\* year advanced by k - 1, same month and day, so a grant has
\* 12 * (k - 1) + (month offset between offer start and grant start) elapsed
\* months; for a start_date of 29 February and a target year that is not a
\* leap year no other date is taken and the call fails with ValueError.
C26_YearDateOrError ==
    /\ op = "calculate_year_equity_value" =>
          IF LeapDayMissing(offer.start_date, args.year)
          THEN result = Error("ValueError")
          ELSE /\ result.kind = "number"
               /\ result.value = EquityByElapsed(offer, args.year)
               /\ get_year_date(offer.start_date, args.year) =
                     Date(offer.start_date.y + args.year - 1,
                          offer.start_date.m, offer.start_date.d)
    /\ op = "compute_total_comp" =>
          IF \E k \in 1..args.years : LeapDayMissing(offer.start_date, k)
          THEN result = Error("ValueError")
          ELSE /\ result.kind = "projection"
               /\ \A k \in 1..Len(result.years) :
                     result.years[k].equity_value = EquityByElapsed(offer, k)

C26_Witness ==
    /\ op = "calculate_year_equity_value"
    /\ offer.start_date = Date(2024, 2, 29)
    /\ offer.equity_grants # <<>>
    /\ args.year = 2
    /\ result = Error("ValueError")

=============================================================================
